---- MODULE Spec2Model ----
(***************************************************************************)
(* SpinUpFanBeforeBridge.execute: a forward scan over the lines of every   *)
(* layer that simulates elapsed print time, keeps a sliding window of      *)
(* (timestamp, layer_index, line_index) samples, resolves each ";BRIDGE"   *)
(* marker to an insertion position, and then applies the insertions.       *)
(*                                                                         *)
(* Text is modelled as sequences of one-character strings.  Times are      *)
(* integers counting 1/TicksPerSec seconds; coordinates and feedrates are  *)
(* integers (mm, mm/min).  The scan never looks ahead, so the document is  *)
(* revealed one line per scan step instead of being fixed in Init.         *)
(***************************************************************************)
EXTENDS Integers, Sequences, FiniteSets

VARIABLES pc, lead_time, target_fan_speed, fan_pwm, fan_cmd, data,
          layers_lines, current_x, current_y, current_z, current_f,
          total_time, is_relative, history, insertions

vars == <<pc, lead_time, target_fan_speed, fan_pwm, fan_cmd, data,
          layers_lines, current_x, current_y, current_z, current_f,
          total_time, is_relative, history, insertions>>

(* ------------------------------ bounds --------------------------------- *)
\* total number of lines of the document, over all layers
MaxLines == 4
\* number of layers of the document
MaxLayers == 2

(* ----------------------------- constants ------------------------------- *)
\* time resolution: total_time, lead_time count tenths of a second
TicksPerSec == 10
\* current_f = 3000.0
DefaultFeedrate == 3000

(* ------------------------------- text ---------------------------------- *)
NL == "\n"

Digits == <<"0", "1", "2", "3", "4", "5", "6", "7", "8", "9">>

IsDigit(c) == \E d \in 1..10 : Digits[d] = c

DigitVal(c) == (CHOOSE d \in 1..10 : Digits[d] = c) - 1

\* pat in line
Contains(line, pat) ==
    \E i \in 1..(Len(line) - Len(pat) + 1) :
        SubSeq(line, i, i + Len(pat) - 1) = pat

\* line.find(key) for a one-character key that occurs in line (1-based)
Find(line, key) ==
    CHOOSE i \in 1..Len(line) :
        /\ line[i] = key
        /\ \A j \in 1..(i - 1) : line[j] # key

\* str(n) for n >= 0
RECURSIVE IntToStr(_)
IntToStr(n) ==
    IF n < 10 THEN <<Digits[n + 1]>>
    ELSE IntToStr(n \div 10) \o <<Digits[(n % 10) + 1]>>

\* the pieces of s from index start on, cuts being the indexes >= start
\* that hold a line break
RECURSIVE SplitFrom(_, _, _)
SplitFrom(s, start, cuts) ==
    IF cuts = {} THEN <<SubSeq(s, start, Len(s))>>
    ELSE LET i == CHOOSE c \in cuts : \A d \in cuts : c <= d
         IN <<SubSeq(s, start, i - 1)>> \o SplitFrom(s, i + 1, cuts \ {i})

\* layer.split("\n")
Split(s) == SplitFrom(s, 1, {i \in 1..Len(s) : s[i] = NL})

\* "\n".join(lines)
RECURSIVE Join(_)
Join(lines) ==
    IF lines = <<>> THEN <<>>
    ELSE IF Len(lines) = 1 THEN lines[1]
    ELSE lines[1] \o <<NL>> \o Join(Tail(lines))

(* ------------------------- _get_value / float -------------------------- *)
None == [some |-> FALSE, v |-> 0]

Some(n) == [some |-> TRUE, v |-> n]

RECURSIVE DigitsVal(_)
DigitsVal(s) ==
    IF s = <<>> THEN 0
    ELSE 10 * DigitsVal(SubSeq(s, 1, Len(s) - 1)) + DigitVal(s[Len(s)])

AllDigits(s) == s # <<>> /\ \A i \in 1..Len(s) : IsDigit(s[i])

\* float(s) on signed integer literals; every other text (the empty text
\* included) raises ValueError, which _get_value turns into None
ParseFloat(s) ==
    IF AllDigits(s) THEN Some(DigitsVal(s))
    ELSE IF s # <<>> /\ s[1] = "-" /\ AllDigits(Tail(s))
         THEN Some(0 - DigitsVal(Tail(s)))
    ELSE IF s # <<>> /\ s[1] = "+" /\ AllDigits(Tail(s))
         THEN Some(DigitsVal(Tail(s)))
    ELSE None

\* first index >= start holding ' ' or ';', or Len(line) + 1
RECURSIVE ValueEnd(_, _)
ValueEnd(line, end) ==
    IF end > Len(line) THEN end
    ELSE IF line[end] = " " \/ line[end] = ";" THEN end
    ELSE ValueEnd(line, end + 1)

_get_value(line, key) ==
    IF ~Contains(line, <<key>>) THEN None
    ELSE LET start == Find(line, key) + 1
             end   == ValueEnd(line, start)
         IN ParseFloat(SubSeq(line, start, end - 1))

(* -------------------------- line vocabulary --------------------------- *)
\* Every move of this vocabulary takes a whole number of half seconds at the
\* feedrates it can meet (1500 and the default 3000 mm/min), so that the
\* floating-point times of the program are exact and equal the tick counts.
G90 == <<"G", "9", "0">>

G91 == <<"G", "9", "1">>

G1 == <<"G", "1">>

G0 == <<"G", "0">>

BRIDGE == <<";", "B", "R", "I", "D", "G", "E">>

\* "G1 X25 F1500"
LineMoveA == <<"G", "1", " ", "X", "2", "5", " ", "F", "1", "5", "0", "0">>

\* "G1 X50"
LineMoveB == <<"G", "1", " ", "X", "5", "0">>

\* "G1 X100 F1500 ;BRIDGE": a move and a trigger marker on one line
LineMoveBridge == <<"G", "1", " ", "X", "1", "0", "0", " ", "F", "1", "5", "0", "0", " ", ";", "B", "R", "I", "D", "G", "E">>

\* "G91 G1 X F0": relative mode, an unparseable X value, a zero feedrate
LineRelZeroFeed == <<"G", "9", "1", " ", "G", "1", " ", "X", " ", "F", "0">>

\* "G90 G0 Y3 Z4 F-60": absolute mode, a negative feedrate
LineAbsNegFeed == <<"G", "9", "0", " ", "G", "0", " ", "Y", "3", " ", "Z", "4", " ", "F", "-", "6", "0">>

\* the lines documents are made of
Lines == {BRIDGE, LineMoveA, LineMoveB, LineMoveBridge, LineRelZeroFeed,
          LineAbsNegFeed}

\* lead_time settings: 1.0 s and the default 1.5 s
LeadTimes == {10, 15}

\* target_fan_speed settings
FanSpeeds == {50}

(* ---------------------------- fan command ------------------------------ *)
\* int(num / den): truncation toward zero
IntTrunc(num, den) ==
    IF num >= 0 THEN num \div den ELSE 0 - ((0 - num) \div den)

\* int((target_fan_speed / 100.0) * 255.0)
FanPwm(speed) == IntTrunc(speed * 255, 100)

\* f"{lead_time}" for a lead time of whole tenths of a second
FormatLead(lt) ==
    IntToStr(lt \div TicksPerSec) \o <<".">>
        \o IntToStr(((lt % TicksPerSec) * 10) \div TicksPerSec)

\* f"M106 S{fan_pwm} ; SpinUpFanBeforeBridge (Lead: {lead_time}s)"
FanCmd(pwm, lt) ==
    <<"M", "1", "0", "6", " ", "S">> \o IntToStr(pwm)
        \o <<" ", ";", " ", "S", "p", "i", "n", "U", "p", "F", "a", "n", "B", "e", "f", "o", "r", "e", "B", "r", "i", "d", "g", "e", " ", "(", "L", "e", "a", "d", ":", " ">>
        \o FormatLead(lt) \o <<"s", ")">>

(* --------------------------- time simulator ---------------------------- *)
Abs(n) == IF n < 0 THEN 0 - n ELSE n

\* a signed sum in place of the norm
HypotSigned(dx, dy, dz) == dx + dy + dz

\* math.hypot(dx, dy, dz): the root of the sum of squares (its integer part;
\* the vocabulary only produces perfect squares)
Hypot(dx, dy, dz) ==
    LET n == dx * dx + dy * dy + dz * dz
    IN CHOOSE r \in 0..(Abs(dx) + Abs(dy) + Abs(dz)) :
           r * r <= n /\ n < (r + 1) * (r + 1)

\* (dist / current_f) * 60.0, in ticks
MoveTime(dist, f) == (dist * 60 * TicksPerSec) \div f

\* the move time subtracted in place of added
TimeAfterMoveBackward(total, dist, f) ==
    IF dist > 0 /\ f > 0 THEN total - MoveTime(dist, f) ELSE total

\* the feedrate test as f != 0
TimeAfterMoveAnySign(total, dist, f) ==
    IF dist > 0 /\ f # 0 THEN total + MoveTime(dist, f) ELSE total

\* total_time after a move of length dist at feedrate f
TimeAfterMove(total, dist, f) ==
    IF dist > 0 /\ f > 0 THEN total + MoveTime(dist, f) ELSE total

\* what the scan reads off each line of the vocabulary: the four
\* _get_value results and the substring tests
LineFacts ==
    [l \in Lines |->
        [x |-> _get_value(l, "X"), y |-> _get_value(l, "Y"),
         z |-> _get_value(l, "Z"), f |-> _get_value(l, "F"),
         g90 |-> Contains(l, G90), g91 |-> Contains(l, G91),
         move |-> Contains(l, G1) \/ Contains(l, G0),
         trigger |-> Contains(l, BRIDGE)]]

\* the mode as a per-line flag: absolute on every line without G91
ModeAfterReset(line, rel) == LineFacts[line].g91

\* is_relative after the G90 / G91 checks of a line
ModeAfter(line, rel) ==
    IF LineFacts[line].g91 THEN TRUE
    ELSE IF LineFacts[line].g90 THEN FALSE
    ELSE rel

\* the motion test as "G1" in line alone
IsMoveG1Only(line) == Contains(line, G1)

\* "G1" in line or "G0" in line
IsMove(line) == LineFacts[line].move

\* ";BRIDGE" in line
IsTrigger(line) == LineFacts[line].trigger

\* x if x is not None else dflt
OrElse(val, dflt) == IF val.some THEN val.v ELSE dflt

(* --------------------------- history window ---------------------------- *)
\* the loop test as history[0][0] <= cutoff_time
RECURSIVE PruneInclusive(_, _)
PruneInclusive(hist, cutoff_time) ==
    IF Len(hist) > 0 /\ hist[1][1] <= cutoff_time
    THEN PruneInclusive(Tail(hist), cutoff_time)
    ELSE hist

\* while len(history) > 0 and history[0][0] < cutoff_time: history.popleft()
RECURSIVE Prune(_, _)
Prune(hist, cutoff_time) ==
    IF Len(hist) > 0 /\ hist[1][1] < cutoff_time
    THEN Prune(Tail(hist), cutoff_time)
    ELSE hist

(* --------------------------- trigger resolver -------------------------- *)
\* a scan from the head: the smallest i <= from with hist[i][1] <=
\* target_time, 0 when there is none
ScanForward(hist, from, target_time) ==
    IF \E i \in 1..from : hist[i][1] <= target_time
    THEN CHOOSE i \in 1..from :
             /\ hist[i][1] <= target_time
             /\ \A j \in 1..(i - 1) : hist[j][1] > target_time
    ELSE 0

\* the backward scan with its test as t >= target_time: the largest
\* i <= from with hist[i][1] >= target_time, 0 when there is none
ScanBackAtOrAfter(hist, from, target_time) ==
    IF \E i \in 1..from : hist[i][1] >= target_time
    THEN CHOOSE i \in 1..from :
             /\ hist[i][1] >= target_time
             /\ \A j \in (i + 1)..from : hist[j][1] < target_time
    ELSE 0

\* the backward scan: the largest i <= from with hist[i][1] <= target_time,
\* 0 when there is none (found = False)
RECURSIVE ScanBack(_, _, _)
ScanBack(hist, from, target_time) ==
    IF from = 0 THEN 0
    ELSE IF hist[from][1] <= target_time THEN from
    ELSE ScanBack(hist, from - 1, target_time)

\* the head's position whatever the scan finds
InteriorPositionAtHead(hist, target_time) == <<hist[1][2], hist[1][3]>>

\* the found sample's own position in place of the next sample's
InteriorPositionAtFound(hist, target_time) ==
    LET i == ScanBack(hist, Len(hist), target_time)
    IN IF i = 0 THEN <<hist[1][2], hist[1][3]>>
       ELSE <<hist[i][2], hist[i][3]>>

\* the position the else-branch (the backward scan) records
InteriorPosition(hist, target_time) ==
    LET i == ScanBack(hist, Len(hist), target_time)
    IN IF i = 0 THEN <<hist[1][2], hist[1][3]>>
       ELSE IF i + 1 <= Len(hist) THEN <<hist[i + 1][2], hist[i + 1][3]>>
       ELSE <<hist[i][2], hist[i][3]>>

\* the tail check as target_time > history[-1][0]
ResolveStrictTail(hist, total, lead, layer_idx, line_idx, ins, cmd) ==
    LET target_time == total - lead
    IN IF Len(hist) > 0
       THEN IF target_time <= hist[1][1]
            THEN Append(ins, <<hist[1][2], hist[1][3], cmd>>)
            ELSE IF target_time > hist[Len(hist)][1]
            THEN Append(ins, <<layer_idx, line_idx, cmd>>)
            ELSE LET p == InteriorPosition(hist, target_time)
                 IN Append(ins, <<p[1], p[2], cmd>>)
       ELSE ins

\* the tail branch recording the line after the trigger line
ResolveAfterTrigger(hist, total, lead, layer_idx, line_idx, ins, cmd) ==
    LET target_time == total - lead
    IN IF Len(hist) > 0
       THEN IF target_time <= hist[1][1]
            THEN Append(ins, <<hist[1][2], hist[1][3], cmd>>)
            ELSE IF target_time >= hist[Len(hist)][1]
            THEN Append(ins, <<layer_idx, line_idx + 1, cmd>>)
            ELSE LET p == InteriorPosition(hist, target_time)
                 IN Append(ins, <<p[1], p[2], cmd>>)
       ELSE ins

\* the head check as target_time < history[0][0]
ResolveStrictHead(hist, total, lead, layer_idx, line_idx, ins, cmd) ==
    LET target_time == total - lead
    IN IF Len(hist) > 0
       THEN IF target_time < hist[1][1]
            THEN Append(ins, <<hist[1][2], hist[1][3], cmd>>)
            ELSE IF target_time >= hist[Len(hist)][1]
            THEN Append(ins, <<layer_idx, line_idx, cmd>>)
            ELSE LET p == InteriorPosition(hist, target_time)
                 IN Append(ins, <<p[1], p[2], cmd>>)
       ELSE ins

\* insertions after the trigger check of the line at (layer_idx, line_idx)
Resolve(hist, total, lead, layer_idx, line_idx, ins, cmd) ==
    LET target_time == total - lead
    IN IF Len(hist) > 0
       THEN IF target_time <= hist[1][1]
            THEN Append(ins, <<hist[1][2], hist[1][3], cmd>>)
            ELSE IF target_time >= hist[Len(hist)][1]
            THEN Append(ins, <<layer_idx, line_idx, cmd>>)
            ELSE LET p == InteriorPosition(hist, target_time)
                 IN Append(ins, <<p[1], p[2], cmd>>)
       ELSE ins

(* -------------------------- insertion applier -------------------------- *)
KeyGreater(a, b) == a[1] > b[1] \/ (a[1] = b[1] /\ a[2] > b[2])

\* e placed behind every element whose key is >= its own
RECURSIVE InsertDesc(_, _)
InsertDesc(s, e) ==
    IF s = <<>> THEN <<e>>
    ELSE IF KeyGreater(e, Head(s)) THEN <<e>> \o s
    ELSE <<Head(s)>> \o InsertDesc(Tail(s), e)

RECURSIVE SortFrom(_, _)
SortFrom(sorted, rest) ==
    IF rest = <<>> THEN sorted
    ELSE SortFrom(InsertDesc(sorted, Head(rest)), Tail(rest))

\* the sort without reverse=True
RECURSIVE SortAscFrom(_, _)
SortAscFrom(sorted, rest) ==
    IF rest = <<>> THEN sorted
    ELSE LET e == Head(rest)
             k == Cardinality({i \in 1..Len(sorted) : ~KeyGreater(sorted[i], e)})
         IN SortAscFrom(SubSeq(sorted, 1, k) \o <<e>>
                            \o SubSeq(sorted, k + 1, Len(sorted)),
                        Tail(rest))

SortInsertionsAscending(ins) == SortAscFrom(<<>>, ins)

\* insertions.sort(key=lambda x: (x[0], x[1]), reverse=True): stable
SortInsertions(ins) == SortFrom(<<>>, ins)

\* lst[idx] = x in place of lst.insert(idx, x)
ListOverwrite(lst, idx, x) ==
    IF idx >= Len(lst) THEN Append(lst, x)
    ELSE [lst EXCEPT ![idx + 1] = x]

\* list.insert(idx, x) for idx >= 0
ListInsert(lst, idx, x) ==
    IF idx >= Len(lst) THEN Append(lst, x)
    ELSE SubSeq(lst, 1, idx) \o <<x>> \o SubSeq(lst, idx + 1, Len(lst))

\* for l_idx, ln_idx, cmd in insertions: layers_lines[l_idx].insert(ln_idx, cmd)
RECURSIVE ApplyAll(_, _)
ApplyAll(ll, ins) ==
    IF ins = <<>> THEN ll
    ELSE ApplyAll([ll EXCEPT ![Head(ins)[1] + 1] =
                       ListInsert(@, Head(ins)[2], Head(ins)[3])],
                  Tail(ins))

RECURSIVE SumLen(_)
SumLen(ll) == IF ll = <<>> THEN 0 ELSE Len(Head(ll)) + SumLen(Tail(ll))

\* the lines of the document scanned so far
NumLines == SumLen(layers_lines)

(* ------------------------------ actions -------------------------------- *)
Init ==
    /\ pc = "start"
    /\ lead_time \in LeadTimes
    /\ target_fan_speed \in FanSpeeds
    /\ fan_pwm = 0
    /\ fan_cmd = <<>>
    /\ data = <<>>
    /\ layers_lines = <<>>
    /\ current_x = 0
    /\ current_y = 0
    /\ current_z = 0
    /\ current_f = 0
    /\ total_time = 0
    /\ is_relative = FALSE
    /\ history = <<>>
    /\ insertions = <<>>

\* execute, up to the scan loop
Begin ==
    /\ pc = "start"
    /\ pc' = "scan"
    /\ fan_pwm' = FanPwm(target_fan_speed)
    /\ fan_cmd' = FanCmd(fan_pwm', lead_time)
    /\ current_x' = 0
    /\ current_y' = 0
    /\ current_z' = 0
    /\ current_f' = DefaultFeedrate
    /\ total_time' = 0
    /\ is_relative' = FALSE
    /\ history' = <<>>
    /\ insertions' = <<>>
    /\ UNCHANGED <<lead_time, target_fan_speed, data, layers_lines>>

\* one iteration of the inner loop, on the line at (layer_idx, line_idx)
ScanLine(line, layer_idx, line_idx) ==
    LET x     == LineFacts[line].x
        y     == LineFacts[line].y
        z     == LineFacts[line].z
        f     == LineFacts[line].f
        rel   == ModeAfter(line, is_relative)
        move  == IsMove(line)
        hist1 == IF move
                 THEN Append(history, <<total_time, layer_idx, line_idx>>)
                 ELSE history
        f1    == IF move /\ f.some THEN f.v ELSE current_f
        dx    == IF rel THEN OrElse(x, 0) ELSE OrElse(x, current_x) - current_x
        dy    == IF rel THEN OrElse(y, 0) ELSE OrElse(y, current_y) - current_y
        dz    == IF rel THEN OrElse(z, 0) ELSE OrElse(z, current_z) - current_z
        dist  == Hypot(dx, dy, dz)
        t1    == IF move THEN TimeAfterMove(total_time, dist, f1)
                 ELSE total_time
    IN /\ is_relative' = rel
       /\ insertions' =
              IF IsTrigger(line)
              THEN Resolve(history, total_time, lead_time, layer_idx,
                           line_idx, insertions, fan_cmd)
              ELSE insertions
       /\ current_f' = f1
       /\ current_x' = IF move THEN current_x + dx ELSE current_x
       /\ current_y' = IF move THEN current_y + dy ELSE current_y
       /\ current_z' = IF move THEN current_z + dz ELSE current_z
       /\ total_time' = t1
       /\ history' = Prune(hist1, t1 - lead_time * 2)

\* the first line of a new layer
ScanFirstLine(line) ==
    /\ pc = "scan"
    /\ Len(data) < MaxLayers
    /\ NumLines < MaxLines
    /\ data' = Append(data, line)
    /\ layers_lines' = [i \in 1..Len(data') |-> Split(data'[i])]
    /\ ScanLine(layers_lines'[Len(data')][1], Len(data), 0)
    /\ UNCHANGED <<pc, lead_time, target_fan_speed, fan_pwm, fan_cmd>>

\* a further line of the current layer
ScanNextLine(line) ==
    /\ pc = "scan"
    /\ data # <<>>
    /\ NumLines < MaxLines
    /\ data' = [data EXCEPT ![Len(data)] = @ \o <<NL>> \o line]
    /\ layers_lines' = [i \in 1..Len(data') |-> Split(data'[i])]
    /\ LET n == Len(layers_lines'[Len(data)])
       IN ScanLine(layers_lines'[Len(data)][n], Len(data) - 1, n - 1)
    /\ UNCHANGED <<pc, lead_time, target_fan_speed, fan_pwm, fan_cmd>>

\* the sort and the insertion loop after the scan
ApplyInsertions ==
    /\ pc = "scan"
    /\ pc' = "apply"
    /\ insertions' = SortInsertions(insertions)
    /\ layers_lines' = ApplyAll(layers_lines, insertions')
    /\ UNCHANGED <<lead_time, target_fan_speed, fan_pwm, fan_cmd, data,
                   current_x, current_y, current_z, current_f, total_time,
                   is_relative, history>>

\* data[i] = "\n".join(layers_lines[i])
Reconstruct ==
    /\ pc = "apply"
    /\ pc' = "done"
    /\ data' = [i \in 1..Len(data) |-> Join(layers_lines[i])]
    /\ UNCHANGED <<lead_time, target_fan_speed, fan_pwm, fan_cmd,
                   layers_lines, current_x, current_y, current_z, current_f,
                   total_time, is_relative, history, insertions>>

Next ==
    \/ Begin
    \/ \E line \in Lines : ScanFirstLine(line)
    \/ \E line \in Lines : ScanNextLine(line)
    \/ ApplyInsertions
    \/ Reconstruct

Spec == Init /\ [][Next]_vars

(* --------------------------- claim vocabulary -------------------------- *)
\* the position and text of the line scanned last (pc = "scan", data # <<>>)
LastLayerIdx == Len(layers_lines) - 1

LastLineIdx == Len(layers_lines[Len(layers_lines)]) - 1

LastLine == layers_lines[Len(layers_lines)][LastLineIdx + 1]

\* the input document, as lines
InputLines == [i \in 1..Len(data) |-> Split(data[i])]

\* a step that scans one line
ScanStep == pc = "scan" /\ pc' = "scan"

\* a step that scans a line holding the trigger marker
TriggerStep == ScanStep /\ IsTrigger(LastLine')

\* target_time of a trigger scanned in the current state
TargetTime == total_time - lead_time

\* the step appends exactly one insertion, at (l, ln)
Recorded(l, ln) == insertions' = Append(insertions, <<l, ln, fan_cmd>>)

IsFanLine(l) == l = fan_cmd

RECURSIVE TriggerCount(_)
TriggerCount(ll) ==
    IF ll = <<>> THEN 0
    ELSE Len(SelectSeq(Head(ll), IsTrigger)) + TriggerCount(Tail(ll))

RECURSIVE FanCount(_)
FanCount(ll) ==
    IF ll = <<>> THEN 0
    ELSE Len(SelectSeq(Head(ll), IsFanLine)) + FanCount(Tail(ll))

\* the index of the first sample whose timestamp exceeds t (0 if none)
FirstAfter(hist, t) ==
    IF \E k \in 1..Len(hist) : hist[k][1] > t
    THEN CHOOSE k \in 1..Len(hist) :
             /\ hist[k][1] > t
             /\ \A j \in 1..(k - 1) : hist[j][1] <= t
    ELSE 0

M106 == <<"M", "1", "0", "6">>

StartsWith(line, pre) ==
    Len(line) >= Len(pre) /\ SubSeq(line, 1, Len(pre)) = pre

(* -------------------------------- C1 ----------------------------------- *)
\* C1: the number of fan-command lines inserted equals the number of lines
\* holding the trigger marker: while scanning, every trigger line scanned so
\* far has produced exactly one pending insertion, and after the apply phase
\* the document holds as many fan commands as the input holds trigger lines.
C1_InsertionPerTrigger ==
    /\ pc = "scan" => Len(insertions) = TriggerCount(layers_lines)
    /\ pc = "apply" => FanCount(layers_lines) = TriggerCount(InputLines)

(* -------------------------------- C2 ----------------------------------- *)
\* C2 (as stated): a trigger whose target time is covered by the history
\* (head timestamp <= target) records its insertion at the position of a
\* sample whose timestamp is the largest sample timestamp <= target.
C2_LargestAtOrBefore ==
    [][(TriggerStep /\ history # <<>> /\ history[1][1] <= TargetTime)
        => \E k \in 1..Len(history) :
               /\ history[k][1] <= TargetTime
               /\ \A j \in 1..Len(history) :
                      history[j][1] <= TargetTime
                          => history[j][1] <= history[k][1]
               /\ Recorded(history[k][2], history[k][3])]_vars

\* C2 (amended): a trigger whose target time lies strictly between the
\* head's and the tail's timestamps records its insertion at the position of
\* the first sample whose timestamp is greater than the target, the sample
\* right after the last one with timestamp <= target; the command therefore
\* starts less than lead_time before the trigger.
C2_FirstAfterTarget ==
    [][(TriggerStep /\ history # <<>> /\ history[1][1] < TargetTime
            /\ TargetTime < history[Len(history)][1])
        => LET k == FirstAfter(history, TargetTime)
           IN /\ k >= 2
              /\ history[k - 1][1] <= TargetTime
              /\ total_time - history[k][1] < lead_time
              /\ Recorded(history[k][2], history[k][3])]_vars

\* a lone trigger line was scanned with three samples in the window, the
\* target strictly inside, the second sample at or before the target, and
\* the insertion recorded at the third
C2_Witness ==
    /\ pc = "scan"
    /\ data # <<>>
    /\ LastLine = BRIDGE
    /\ Len(history) >= 3
    /\ history[1][1] < TargetTime
    /\ history[2][1] <= TargetTime
    /\ TargetTime < history[3][1]
    /\ insertions # <<>>
    /\ insertions[Len(insertions)] = <<history[3][2], history[3][3], fan_cmd>>

(* -------------------------------- C3 ----------------------------------- *)
\* C3: a trigger whose target time equals the timestamp of a retained
\* sample records its insertion at the position of a sample with that
\* timestamp.
C3_ExactMatch ==
    [][(TriggerStep /\ \E k \in 1..Len(history) : history[k][1] = TargetTime)
        => \E k \in 1..Len(history) :
               /\ history[k][1] = TargetTime
               /\ Recorded(history[k][2], history[k][3])]_vars

(* -------------------------------- C4 ----------------------------------- *)
\* C4: a trigger line scanned while the history window is empty records an
\* insertion at the trigger line's own position.
C4_EmptyWindowFallback ==
    [][(TriggerStep /\ history = <<>>)
        => Recorded(LastLayerIdx', LastLineIdx')]_vars

(* -------------------------------- C5 ----------------------------------- *)
\* C5: the S value of every M106 line of the document is target_fan_speed
\* / 100 * 255 rounded to the nearest integer, and 128 for 50 percent.
C5_PwmRounded ==
    \A i \in 1..Len(layers_lines) :
        \A j \in 1..Len(layers_lines[i]) :
            StartsWith(layers_lines[i][j], M106)
                => LET sv == _get_value(layers_lines[i][j], "S")
                   IN /\ sv.some
                      /\ 2 * Abs(100 * sv.v - 255 * target_fan_speed) <= 100
                      /\ target_fan_speed = 50 => sv.v = 128

(* -------------------------------- C6 ----------------------------------- *)
IsNotFanLine(l) == l # fan_cmd

\* C6: after the apply phase the document has the input's layers, and every
\* layer with its fan-command lines deleted is the input layer, line for
\* line; a document without trigger marker is unchanged; the returned
\* strings are those lines joined.
C6_OriginalLinesPreserved ==
    /\ pc = "apply" =>
           /\ Len(layers_lines) = Len(data)
           /\ \A i \in 1..Len(data) :
                  SelectSeq(layers_lines[i], IsNotFanLine) = Split(data[i])
           /\ TriggerCount(InputLines) = 0 => layers_lines = InputLines
    /\ pc = "done" =>
           /\ Len(data) = Len(layers_lines)
           /\ \A i \in 1..Len(data) : Split(data[i]) = layers_lines[i]

\* the apply phase has put two or more fan commands into a two-layer document
C6_Witness ==
    /\ pc = "apply"
    /\ Len(data) = 2
    /\ FanCount(layers_lines) >= 2
    /\ \E i \in 1..2 : Len(layers_lines[i]) > Len(Split(data[i]))

(* -------------------------------- C7 ----------------------------------- *)
\* the insertions recorded at (l, ln), and at or before line ln of layer l
InsertionsAt(l, ln) ==
    Cardinality({k \in 1..Len(insertions) :
                     insertions[k][1] = l /\ insertions[k][2] = ln})

InsertionsUpTo(l, ln) ==
    Cardinality({k \in 1..Len(insertions) :
                     insertions[k][1] = l /\ insertions[k][2] <= ln})

\* C7: after the apply phase, for every insertion recorded at (l, ln) the
\* input line ln of layer l is found behind all fan commands recorded at or
\* before it, and the lines directly in front of it are the fan commands
\* recorded for (l, ln), as many as were recorded there.
C7_NoStalePosition ==
    pc = "apply" =>
        \A k \in 1..Len(insertions) :
            LET l     == insertions[k][1]
                ln    == insertions[k][2]
                orig  == Split(data[l + 1])
                final == layers_lines[l + 1]
                p     == ln + 1 + InsertionsUpTo(l, ln)
                c     == InsertionsAt(l, ln)
            IN /\ ln < Len(orig)
               /\ p <= Len(final)
               /\ final[p] = orig[ln + 1]
               /\ \A q \in (p - c)..(p - 1) : final[q] = insertions[k][3]
               /\ p - c - 1 >= 1 => final[p - c - 1] # insertions[k][3]

\* two insertions at different lines of one layer have been applied
C7_Witness ==
    /\ pc = "apply"
    /\ Len(insertions) >= 2
    /\ insertions[1][1] = insertions[2][1]
    /\ insertions[1][2] > insertions[2][2]

(* -------------------------------- C8 ----------------------------------- *)
\* a motion command has been scanned
HasMove ==
    \E i \in 1..Len(layers_lines) :
        \E j \in 1..Len(layers_lines[i]) : IsMove(layers_lines[i][j])

\* the position of the first motion command scanned
FirstMove ==
    CHOOSE q \in {<<i - 1, j - 1>> : i \in 1..MaxLayers, j \in 1..MaxLines} :
        /\ q[1] < Len(layers_lines)
        /\ q[2] < Len(layers_lines[q[1] + 1])
        /\ IsMove(layers_lines[q[1] + 1][q[2] + 1])
        /\ \A i \in 1..Len(layers_lines) :
               \A j \in 1..Len(layers_lines[i]) :
                   IsMove(layers_lines[i][j])
                       => KeyGreater(<<i - 1, j - 1>>, q) \/ <<i - 1, j - 1>> = q

\* C8: a trigger scanned with a non-empty window and target_time <= the
\* head's timestamp records its insertion at the head's position, whatever
\* the tail's timestamp; and a trigger at elapsed time <= lead_time that
\* follows a motion command records it at the first motion command of the
\* document.
C8_HeadFallback ==
    [][/\ (TriggerStep /\ history # <<>> /\ TargetTime <= history[1][1])
           => Recorded(history[1][2], history[1][3])
       /\ (TriggerStep /\ total_time <= lead_time /\ HasMove)
           => Recorded(FirstMove[1], FirstMove[2])]_vars

\* a lone trigger line was scanned with the target at or before the head and
\* at or after the tail, and the insertion went to the head, not the trigger
C8_Witness ==
    /\ pc = "scan"
    /\ data # <<>>
    /\ LastLine = BRIDGE
    /\ history # <<>>
    /\ TargetTime <= history[1][1]
    /\ TargetTime >= history[Len(history)][1]
    /\ insertions # <<>>
    /\ insertions[Len(insertions)] = <<history[1][2], history[1][3], fan_cmd>>
    /\ <<history[1][2], history[1][3]>> # <<LastLayerIdx, LastLineIdx>>

(* -------------------------------- C9 ----------------------------------- *)
\* the step changes the coordinates
Moved ==
    <<current_x', current_y', current_z'>> # <<current_x, current_y, current_z>>

\* C9: total_time starts at 0; a step that scans a motion command with a
\* displacement and a feedrate > 0 increases it, and every other step leaves
\* it as it is.
C9_TimeMonotone ==
    /\ total_time = 0
    /\ [][IF ScanStep /\ IsMove(LastLine') /\ Moved /\ current_f' > 0
          THEN total_time' > total_time
          ELSE total_time' = total_time]_vars

\* the motion command scanned last took time
C9_Witness ==
    /\ pc = "scan"
    /\ data # <<>>
    /\ IsMove(LastLine)
    /\ history # <<>>
    /\ history[Len(history)][1] > 0
    /\ history[Len(history)][1] < total_time

(* -------------------------------- C10 ---------------------------------- *)
\* the coordinates and feedrate the line scanned by this step asks for
ExpectedX ==
    IF is_relative' THEN current_x + OrElse(LineFacts[LastLine'].x, 0)
    ELSE OrElse(LineFacts[LastLine'].x, current_x)

ExpectedY ==
    IF is_relative' THEN current_y + OrElse(LineFacts[LastLine'].y, 0)
    ELSE OrElse(LineFacts[LastLine'].y, current_y)

ExpectedZ ==
    IF is_relative' THEN current_z + OrElse(LineFacts[LastLine'].z, 0)
    ELSE OrElse(LineFacts[LastLine'].z, current_z)

ExpectedF == OrElse(LineFacts[LastLine'].f, current_f)

\* C10: a motion command whose feedrate is <= 0 or whose displacement is
\* zero leaves total_time as it is, sets the coordinates and the modal
\* feedrate the line asks for, and appends its sample (total_time, layer,
\* line) to the window.
C10_DegenerateMove ==
    [][(/\ ScanStep
        /\ IsMove(LastLine')
        /\ \/ ExpectedF <= 0
           \/ <<ExpectedX, ExpectedY, ExpectedZ>>
                  = <<current_x, current_y, current_z>>)
        => /\ total_time' = total_time
           /\ current_x' = ExpectedX
           /\ current_y' = ExpectedY
           /\ current_z' = ExpectedZ
           /\ current_f' = ExpectedF
           /\ history' = Append(history,
                                <<total_time, LastLayerIdx', LastLineIdx'>>)]_vars

\* a move with a negative feedrate and a displacement was scanned after time
\* had passed: the time stood still and the sample is in the window
C10_Witness ==
    /\ pc = "scan"
    /\ data # <<>>
    /\ LastLine = LineAbsNegFeed
    /\ current_f < 0
    /\ current_y = 3
    /\ current_z = 4
    /\ total_time > 0
    /\ Len(history) >= 2
    /\ history[Len(history)] = <<total_time, LastLayerIdx, LastLineIdx>>

(* -------------------------------- C11 ---------------------------------- *)
\* the motion state before the first line, with a history that is never
\* pruned
ReplayInit ==
    [x |-> 0, y |-> 0, z |-> 0, f |-> DefaultFeedrate, rel |-> FALSE,
     t |-> 0, hist |-> <<>>]

\* the motion block of one loop iteration, without the pruning that follows
ReplayLine(st, line, layer_idx, line_idx) ==
    LET x    == LineFacts[line].x
        y    == LineFacts[line].y
        z    == LineFacts[line].z
        f    == LineFacts[line].f
        rel  == ModeAfter(line, st.rel)
        f1   == IF f.some THEN f.v ELSE st.f
        dx   == IF rel THEN OrElse(x, 0) ELSE OrElse(x, st.x) - st.x
        dy   == IF rel THEN OrElse(y, 0) ELSE OrElse(y, st.y) - st.y
        dz   == IF rel THEN OrElse(z, 0) ELSE OrElse(z, st.z) - st.z
    IN IF IsMove(line)
       THEN [x |-> st.x + dx, y |-> st.y + dy, z |-> st.z + dz, f |-> f1,
             rel |-> rel,
             t |-> TimeAfterMove(st.t, Hypot(dx, dy, dz), f1),
             hist |-> Append(st.hist, <<st.t, layer_idx, line_idx>>)]
       ELSE [st EXCEPT !.rel = rel]

RECURSIVE ReplayLayer(_, _, _, _)
ReplayLayer(st, lines, layer_idx, k) ==
    IF k > Len(lines) THEN st
    ELSE ReplayLayer(ReplayLine(st, lines[k], layer_idx, k - 1), lines,
                     layer_idx, k + 1)

RECURSIVE ReplayFrom(_, _, _)
ReplayFrom(st, ll, i) ==
    IF i > Len(ll) THEN st
    ELSE ReplayFrom(ReplayLayer(st, ll[i], i - 1, 1), ll, i + 1)

\* every motion sample of the lines scanned so far (pc = "scan")
FullHistory == ReplayFrom(ReplayInit, layers_lines, 1).hist

\* C11: pruning does not change trigger resolution: the insertion a trigger
\* line records (or its absence) is what the same resolver yields on the
\* complete, never-pruned history of motion samples.
C11_PruningTransparent ==
    [][TriggerStep
        => insertions' = Resolve(FullHistory, total_time, lead_time,
                                 LastLayerIdx', LastLineIdx', insertions,
                                 fan_cmd)]_vars

(* -------------------------------- C12 ---------------------------------- *)
\* the index of the most recent sample with timestamp <= t (0 if none)
LastAtOrBefore(hist, t) ==
    IF \E k \in 1..Len(hist) : hist[k][1] <= t
    THEN CHOOSE k \in 1..Len(hist) :
             /\ hist[k][1] <= t
             /\ \A j \in (k + 1)..Len(hist) : hist[j][1] > t
    ELSE 0

\* C12: a trigger scanned with head timestamp < target_time < tail
\* timestamp records its insertion at the first sample, in window order,
\* whose timestamp is strictly greater than target_time; that sample is the
\* one immediately after the most recent sample with timestamp <=
\* target_time, also when several samples tie at that timestamp.
C12_InteriorResolution ==
    [][(TriggerStep /\ history # <<>> /\ history[1][1] < TargetTime
            /\ TargetTime < history[Len(history)][1])
        => LET m == LastAtOrBefore(history, TargetTime)
           IN /\ m >= 1
              /\ m + 1 <= Len(history)
              /\ history[m + 1][1] > TargetTime
              /\ \A j \in 1..m : history[j][1] <= TargetTime
              /\ \A j \in 1..(m - 1) :
                     history[j][1] = history[m][1]
                         => <<history[j + 1][2], history[j + 1][3]>>
                                # <<history[m + 1][2], history[m + 1][3]>>
              /\ Recorded(history[m + 1][2], history[m + 1][3])]_vars

\* a lone trigger line was scanned with two samples tied below the target
\* and a third above it, and the insertion went to the third
C12_Witness ==
    /\ pc = "scan"
    /\ data # <<>>
    /\ LastLine = BRIDGE
    /\ Len(history) = 3
    /\ history[1][1] = history[2][1]
    /\ history[2][1] < TargetTime
    /\ TargetTime < history[3][1]
    /\ insertions # <<>>
    /\ insertions[Len(insertions)] = <<history[3][2], history[3][3], fan_cmd>>
    /\ insertions[Len(insertions)] # <<history[2][2], history[2][3], fan_cmd>>

(* -------------------------------- C13 ---------------------------------- *)
\* C13: a trigger scanned with a non-empty window, target_time > the head's
\* timestamp and target_time >= the tail's timestamp records its insertion
\* at the trigger line's own position, which is the position of no sample
\* of the window.
C13_TailBoundary ==
    [][(TriggerStep /\ history # <<>> /\ TargetTime > history[1][1]
            /\ TargetTime >= history[Len(history)][1])
        => /\ Recorded(LastLayerIdx', LastLineIdx')
           /\ \A k \in 1..Len(history) :
                  <<history[k][2], history[k][3]>>
                      # <<LastLayerIdx', LastLineIdx'>>]_vars

\* a lone trigger line was scanned with the target above the head and equal
\* to the tail's timestamp, and the insertion went to the trigger line
C13_Witness ==
    /\ pc = "scan"
    /\ data # <<>>
    /\ LastLine = BRIDGE
    /\ Len(history) >= 2
    /\ TargetTime > history[1][1]
    /\ TargetTime = history[Len(history)][1]
    /\ insertions # <<>>
    /\ insertions[Len(insertions)] = <<LastLayerIdx, LastLineIdx, fan_cmd>>

(* -------------------------------- C14 ---------------------------------- *)
\* C14: whenever a trigger takes the interior branch (head timestamp <
\* target_time < tail timestamp), the backward scan finds a sample with
\* timestamp <= target_time and that sample is not the last of the window:
\* neither the "not found" nor the "no next sample" fallback is executed,
\* and the insertion goes to the sample after the one found.
C14_FallbacksUnreachable ==
    [][(TriggerStep /\ history # <<>> /\ history[1][1] < TargetTime
            /\ TargetTime < history[Len(history)][1])
        => LET i == ScanBack(history, Len(history), TargetTime)
           IN /\ i # 0
              /\ history[i][1] <= TargetTime
              /\ i + 1 <= Len(history)
              /\ InteriorPosition(history, TargetTime)
                     = <<history[i + 1][2], history[i + 1][3]>>]_vars

\* a lone trigger line took the interior branch on a window of two samples:
\* the scan found the head and the insertion went to the tail
C14_Witness ==
    /\ pc = "scan"
    /\ data # <<>>
    /\ LastLine = BRIDGE
    /\ Len(history) = 2
    /\ history[1][1] < TargetTime
    /\ TargetTime < history[2][1]
    /\ ScanBack(history, 2, TargetTime) = 1
    /\ insertions # <<>>
    /\ insertions[Len(insertions)] = <<history[2][2], history[2][3], fan_cmd>>

(* -------------------------------- C15 ---------------------------------- *)
\* the window of this step before its pruning: the line's sample is
\* appended when the line is a motion command
Pushed ==
    IF IsMove(LastLine')
    THEN Append(history, <<total_time, LastLayerIdx', LastLineIdx'>>)
    ELSE history

\* C15: after the pruning step of every scanned line each sample of the
\* window has timestamp >= total_time - 2 * lead_time; a scan step removes
\* samples only from the head of the window, and only samples whose
\* timestamp is < total_time - 2 * lead_time, total_time being the time
\* after the line.
C15_WindowBound ==
    /\ [](pc = "scan" =>
              \A k \in 1..Len(history) :
                  history[k][1] >= total_time - 2 * lead_time)
    /\ [][ScanStep =>
              \E n \in 0..Len(Pushed) :
                  /\ history' = SubSeq(Pushed, n + 1, Len(Pushed))
                  /\ \A k \in 1..n :
                         Pushed[k][1] < total_time' - 2 * lead_time]_vars

\* pruning has removed a sample and kept one whose timestamp is exactly
\* total_time - 2 * lead_time
C15_Witness ==
    /\ pc = "scan"
    /\ history # <<>>
    /\ Len(history) < Len(FullHistory)
    /\ history[1][1] = total_time - 2 * lead_time

(* -------------------------------- C16 ---------------------------------- *)
\* C16: in every reachable state the timestamps of the window are
\* non-decreasing from head to tail and its positions (layer_index,
\* line_index) are strictly increasing from head to tail; every step leaves
\* the window as it was except for samples removed at the head and at most
\* one sample appended at the tail.
C16_WindowOrdered ==
    /\ [](\A k \in 1..(Len(history) - 1) :
              /\ history[k][1] <= history[k + 1][1]
              /\ KeyGreater(<<history[k + 1][2], history[k + 1][3]>>,
                            <<history[k][2], history[k][3]>>))
    /\ [][\E n \in 0..Len(history) :
              LET kept == SubSeq(history, n + 1, Len(history))
              IN \/ history' = kept
                 \/ /\ Len(history') = Len(kept) + 1
                    /\ SubSeq(history', 1, Len(kept)) = kept]_vars

\* the window holds two samples with one timestamp and a later sample of
\* the next layer
C16_Witness ==
    /\ pc = "scan"
    /\ Len(history) >= 3
    /\ history[1][1] = history[2][1]
    /\ history[2][1] < history[3][1]
    /\ history[1][2] < history[3][2]

(* -------------------------------- C17 ---------------------------------- *)
\* a is what is left of b after samples were removed at its head
IsSuffixOf(a, b) ==
    Len(a) <= Len(b) /\ a = SubSeq(b, Len(b) - Len(a) + 1, Len(b))

\* C17: a step that scans a line containing "G1" or "G0" pushes exactly one
\* sample, <<total_time before the line, layer_index, line_index>> of that
\* line: it is the tail of the window after the step, on top of what is left
\* of the old window, unless the pruning of the same step has removed it
\* along with all older samples; a step that scans any other line pushes no
\* sample.
C17_MotionPushesOneSample ==
    [][ScanStep =>
          LET s == <<total_time, LastLayerIdx', LastLineIdx'>>
          IN IF Contains(LastLine', G1) \/ Contains(LastLine', G0)
             THEN \/ /\ history' # <<>>
                     /\ history'[Len(history')] = s
                     /\ IsSuffixOf(SubSeq(history', 1, Len(history') - 1),
                                   history)
                     /\ \A k \in 1..Len(history) : history[k] # s
                  \/ /\ history' = <<>>
                     /\ total_time < total_time' - 2 * lead_time
             ELSE IsSuffixOf(history', history)]_vars

\* a line holding a move and the trigger marker was scanned after other
\* moves: its sample is the tail of the window, stamped with the time before
\* its own move
C17_Witness ==
    /\ pc = "scan"
    /\ data # <<>>
    /\ LastLine = LineMoveBridge
    /\ Len(history) >= 2
    /\ history[Len(history)][2] = LastLayerIdx
    /\ history[Len(history)][3] = LastLineIdx
    /\ history[Len(history)][1] > 0
    /\ history[Len(history)][1] < total_time
    /\ history[Len(history) - 1][3] # LastLineIdx

(* -------------------------------- C18 ---------------------------------- *)
\* the step leaves the motion state and the window as they were
MotionUnchanged ==
    UNCHANGED <<current_x, current_y, current_z, current_f, is_relative,
                total_time, history>>

\* C18 (as stated): a step that scans a line containing the trigger marker
\* leaves x, y, z, the feedrate, the coordinate mode, total_time and the
\* history window as they were before the line.
C18_TriggerFrame ==
    [][TriggerStep => MotionUnchanged]_vars

\* C18 (amended): a step that scans a line containing the trigger marker
\* and none of "G0", "G1", "G90", "G91" leaves x, y, z, the feedrate, the
\* coordinate mode, total_time and the history window as they were before
\* the line, and adds at most one entry to the pending insertions, at their
\* end.
C18_MarkerOnlyFrame ==
    [][(/\ TriggerStep
        /\ ~Contains(LastLine', G0)
        /\ ~Contains(LastLine', G1)
        /\ ~Contains(LastLine', G90)
        /\ ~Contains(LastLine', G91))
        => /\ MotionUnchanged
           /\ \/ insertions' = insertions
              \/ /\ Len(insertions') = Len(insertions) + 1
                 /\ SubSeq(insertions', 1, Len(insertions)) = insertions]_vars

\* a lone trigger line was scanned in relative mode after a move that took
\* time: the window, the position and the mode are those the move left
C18_Witness ==
    /\ pc = "scan"
    /\ data # <<>>
    /\ LastLine = BRIDGE
    /\ is_relative
    /\ current_x > 0
    /\ total_time > 0
    /\ history # <<>>
    /\ history[Len(history)][1] < total_time
    /\ history[Len(history)][3] # LastLineIdx
    /\ insertions # <<>>

(* -------------------------------- C19 ---------------------------------- *)
\* position a is at or before position b, layer first
AtOrBefore(a, b) == a = b \/ KeyGreater(b, a)

\* C19: a trigger step that records an insertion records exactly one, and
\* its position is, in (layer_index, line_index) lexicographic order, at or
\* before the position of the trigger line, also when it lies in an earlier
\* layer.
C19_NeverAfterMarker ==
    [][(TriggerStep /\ insertions' # insertions)
        => /\ Len(insertions') = Len(insertions) + 1
           /\ AtOrBefore(<<insertions'[Len(insertions')][1],
                           insertions'[Len(insertions')][2]>>,
                         <<LastLayerIdx', LastLineIdx'>>)]_vars

\* a lone trigger line that opens the second layer has its insertion
\* recorded at a line of the first layer with a greater line index
C19_Witness ==
    /\ pc = "scan"
    /\ Len(data) = 2
    /\ LastLine = BRIDGE
    /\ LastLineIdx = 0
    /\ insertions # <<>>
    /\ insertions[Len(insertions)][1] = 0
    /\ insertions[Len(insertions)][2] > LastLineIdx

(* -------------------------------- C20 ---------------------------------- *)
\* the position of the insertion this step records last
NewPosition ==
    <<insertions'[Len(insertions')][1], insertions'[Len(insertions')][2]>>

\* the simulated start times of the line at position p: total_time for the
\* trigger line of this step, the sample's timestamp for a line of the window
StartTimes(p) ==
    (IF p = <<LastLayerIdx', LastLineIdx'>> THEN {total_time} ELSE {})
        \cup {history[k][1] : k \in {j \in 1..Len(history) :
                                        <<history[j][2], history[j][3]>> = p}}

\* C20: for every trigger step that records an insertion, the line the
\* command is inserted before has a simulated start time, and that time is
\* >= total_time - lead_time: the achieved lead is between 0 and lead_time.
C20_LeadAtMost ==
    [][(TriggerStep /\ insertions' # insertions)
        => /\ StartTimes(NewPosition) # {}
           /\ \A t \in StartTimes(NewPosition) :
                  /\ t >= total_time - lead_time
                  /\ total_time - t <= lead_time
                  /\ total_time - t >= 0]_vars

\* a lone trigger line was scanned with the target before the head of the
\* window: the insertion is at the head and the achieved lead is shorter
\* than lead_time
C20_Witness ==
    /\ pc = "scan"
    /\ data # <<>>
    /\ LastLine = BRIDGE
    /\ history # <<>>
    /\ TargetTime < history[1][1]
    /\ history[1][1] < total_time
    /\ insertions # <<>>
    /\ insertions[Len(insertions)] = <<history[1][2], history[1][3], fan_cmd>>
    /\ total_time - history[1][1] < lead_time

====
